---- MODULE Spec2Model ----
(***************************************************************************)
(* abel.tools.vmi: angular_integration, average_radial_intensity,          *)
(* radial_integration and anisotropy_parameter.                            *)
(*                                                                         *)
(* Numbers are exact: a value is a record [n, d, p] standing for           *)
(* (n/d) * pi^p in lowest terms, so that the division by 2*pi, the         *)
(* trapezoidal rule and the mean of a band are computed, not assumed.      *)
(* Angles of the polar grid are multiples of pi/2, where sin and cos are   *)
(* exact.                                                                  *)
(***************************************************************************)
EXTENDS Integers, Sequences, FiniteSets, TLC

VARIABLES mem, first, last

vars == <<mem, first, last>>

(***************************************************************************)
(* Bounds of the model.                                                    *)
(***************************************************************************)
\* largest pixel intensity of an enumerated image
MaxVal == 1
\* longest explicit band list / theta range list of a caller
MaxLen == 2
\* longest theta / intensity array handed to the fit
MaxPts == 3

(***************************************************************************)
(* Exact arithmetic standing for numpy's float arithmetic.                 *)
(***************************************************************************)
Abs(x) == IF x < 0 THEN -x ELSE x

RECURSIVE GCD(_, _)
GCD(a, b) == IF b = 0 THEN a ELSE GCD(b, a % b)

\* (n/d) * pi^p in lowest terms, d > 0; zero is [n |-> 0, d |-> 1, p |-> 0]
Q(n, d, p) ==
    IF n = 0 THEN [n |-> 0, d |-> 1, p |-> 0]
    ELSE LET g == GCD(Abs(n), Abs(d))
             s == IF d < 0 THEN -1 ELSE 1
         IN  [n |-> (s * n) \div g, d |-> (s * d) \div g, p |-> p]

QInt(k) == Q(k, 1, 0)

QMul(a, b) == Q(a.n * b.n, a.d * b.d, a.p + b.p)

\* a + b for two values with the same power of pi (or a zero)
QAdd(a, b) ==
    Q(a.n * b.d + b.n * a.d, a.d * b.d, IF a.n = 0 THEN b.p ELSE a.p)

QSub(a, b) == QAdd(a, Q(-b.n, b.d, b.p))

\* a <= b for two values with the same power of pi
QLe(a, b) == a.n * b.d <= b.n * a.d

\* 2*np.pi
TwoPi == Q(2, 1, 1)

QDiv(a, b) == Q(a.n * b.d, a.d * b.n, a.p - b.p)

\* the angle a, a multiple of pi/2, in quarter turns modulo 4
QuarterTurns(a) == ((2 * a.n) \div a.d) % 4

\* np.sin on the grid's angles
Sin(a) == LET k == QuarterTurns(a) IN
          IF k = 1 THEN 1 ELSE IF k = 3 THEN -1 ELSE 0

Cos(a) == LET k == QuarterTurns(a) IN
          IF k = 0 THEN 1 ELSE IF k = 2 THEN -1 ELSE 0

\* Python's None for an optional argument; a given value x is <<x>>
None == <<>>

(***************************************************************************)
(* Images.  An image is a sequence of rows (top row first) of integer      *)
(* pixel intensities.                                                      *)
(***************************************************************************)
Rows(IM) == Len(IM)
Cols(IM) == Len(IM[1])

Max(a, b) == IF a >= b THEN a ELSE b

(***************************************************************************)
(* abel.tools.polar.reproject_image_into_polar, the polar resampler.       *)
(* The grid is regular: radius (i-1)*dr in radial bin i, angle             *)
(* -pi + (j-1)*2*pi/nt in angular bin j, measured from the vertical; the   *)
(* sample of a cell is the pixel under it (0 outside the image), times r   *)
(* when Jacobian is set.                                                   *)
(***************************************************************************)
\* origin defaults to (rows//2 + rows%2, cols//2 + cols%2)
DefaultOrigin(IM) ==
    << (Rows(IM) \div 2) + (Rows(IM) % 2),
       (Cols(IM) \div 2) + (Cols(IM) % 2) >>

\* number of angular bins: the image height unless dt (degrees) is given
NumTheta(IM, dt) == IF dt = None THEN Rows(IM) ELSE 360 \div dt[1]

\* number of radial bins of width dr over the image
NumRadial(IM, dr) == (Max(Rows(IM), Cols(IM)) * dr.d + dr.n - 1) \div dr.n

GridRadius(i, dr) == QMul(QInt(i - 1), dr)

GridAngle(j, nt) == Q(2 * (j - 1) - nt, nt, 1)

\* the pixel of IM under the polar point (r, t) around origin o
PixelAt(IM, o, r, t) ==
    LET x  == (r.n * Sin(t)) \div r.d
        y  == (r.n * Cos(t)) \div r.d
        fb == o[1] + y
        c  == o[2] + x
    IN  IF fb >= 0 /\ fb < Rows(IM) /\ c >= 0 /\ c < Cols(IM)
        THEN IM[Rows(IM) - fb][c + 1] ELSE 0

reproject_image_into_polar(IM, origin, Jacobian, dr, dt) ==
    LET o  == IF origin = None THEN DefaultOrigin(IM) ELSE origin
        nr == NumRadial(IM, dr)
        nt == NumTheta(IM, dt)
    IN  [ polarIM |-> [i \in 1..nr |-> [j \in 1..nt |->
                        LET v == QInt(PixelAt(IM, o, GridRadius(i, dr),
                                              GridAngle(j, nt)))
                        IN  IF Jacobian THEN QMul(v, GridRadius(i, dr)) ELSE v]],
          R |-> [i \in 1..nr |-> [j \in 1..nt |-> GridRadius(i, dr)]],
          T |-> [i \in 1..nr |-> [j \in 1..nt |-> GridAngle(j, nt)]],
          args |-> [IM |-> IM, origin |-> origin, Jacobian |-> Jacobian,
                    dr |-> dr, dt |-> dt] ]

(***************************************************************************)
(* angular_integration                                                     *)
(***************************************************************************)
\* np.trapz of one row y with sample spacing dx
RECURSIVE TrapzFrom(_, _, _)
TrapzFrom(y, dx, j) ==
    IF j >= Len(y) THEN QInt(0)
    ELSE QAdd(QDiv(QMul(dx, QAdd(y[j + 1], y[j])), QInt(2)),
              TrapzFrom(y, dx, j + 1))

\* np.trapz(M, axis=1, dx=dx)
Trapz(M, dx) == [i \in 1..Len(M) |-> TrapzFrom(M[i], dx, 1)]

\* polarIM * R * np.abs(np.sin(T))
JacobianWeighted(polarIM, R, T) ==
    [i \in 1..Len(polarIM) |-> [j \in 1..Len(polarIM[i]) |->
        QMul(QMul(polarIM[i][j], R[i][j]), QInt(Abs(Sin(T[i][j]))))]]

\* mutant: the r*|sin(theta)| weighting is applied whatever the flag says
angular_integration_always_weighted(IM, origin, Jacobian, dr, dt) ==
    LET g      == reproject_image_into_polar(IM, origin, Jacobian, dr, dt)
        dtheta == QSub(g.T[1][2], g.T[1][1])
        speeds == Trapz(JacobianWeighted(g.polarIM, g.R, g.T), dtheta)
        n      == Len(speeds)
    IN  [ r |-> [k \in 1..n |-> g.R[k][1]],
          speeds |-> speeds,
          resampler |-> g.args,
          IM |-> IM ]

angular_integration(IM, origin, Jacobian, dr, dt) ==
    LET g      == reproject_image_into_polar(IM, origin, Jacobian, dr, dt)
        dtheta == QSub(g.T[1][2], g.T[1][1])
        polar  == IF Jacobian THEN JacobianWeighted(g.polarIM, g.R, g.T)
                  ELSE g.polarIM
        speeds == Trapz(polar, dtheta)
        n      == Len(speeds)
    IN  [ r |-> [k \in 1..n |-> g.R[k][1]],
          speeds |-> speeds,
          resampler |-> g.args,
          IM |-> IM ]

(***************************************************************************)
(* average_radial_intensity                                                *)
(***************************************************************************)
\* the value of keyword k in kwargs, or the callee's default
Kw(kwargs, k, default) == IF k \in DOMAIN kwargs THEN kwargs[k] ELSE default

\* intensity /= 2*np.pi, in place on the array a
DivideInPlace(a, c) == [k \in 1..Len(a) |-> QDiv(a[k], c)]

\* mutant: the keyword arguments are not passed on
average_radial_intensity_no_kwargs(IM, kwargs) ==
    LET a == angular_integration(IM, None, FALSE, QInt(1), None)
    IN  [ r |-> a.r,
          intensity |-> DivideInPlace(a.speeds, TwoPi),
          resampler |-> a.resampler,
          IM |-> a.IM ]

\* mutant: Jacobian=True, as the docstring has it
average_radial_intensity_jacobian(IM, kwargs) ==
    LET a == angular_integration(IM, Kw(kwargs, "origin", None), TRUE,
                                 Kw(kwargs, "dr", QInt(1)),
                                 Kw(kwargs, "dt", None))
    IN  [ r |-> a.r,
          intensity |-> DivideInPlace(a.speeds, TwoPi),
          resampler |-> a.resampler,
          IM |-> a.IM ]

average_radial_intensity(IM, kwargs) ==
    LET a == angular_integration(IM, Kw(kwargs, "origin", None), FALSE,
                                 Kw(kwargs, "dr", QInt(1)),
                                 Kw(kwargs, "dt", None))
    IN  [ r |-> a.r,
          intensity |-> DivideInPlace(a.speeds, TwoPi),
          resampler |-> a.resampler,
          IM |-> a.IM ]

(***************************************************************************)
(* radial_integration                                                      *)
(***************************************************************************)
Min(a, b) == IF a <= b THEN a ELSE b

\* Python's position of slice bound k in a sequence of length n
SliceIndex(k, n) == IF k < 0 THEN Max(n + k, 0) ELSE Min(k, n)

\* s[:k]
SliceTo(s, k) == [i \in 1..SliceIndex(k, Len(s)) |-> s[i]]

\* s[k:]
SliceFrom(s, k) ==
    [i \in 1..(Len(s) - SliceIndex(k, Len(s))) |-> s[SliceIndex(k, Len(s)) + i]]

\* list(zip(a, b))
Zip(a, b) == [i \in 1..Min(Len(a), Len(b)) |-> <<a[i], b[i]>>]

\* the three forms of the radial_ranges argument
RangesNone == [tag |-> "None"]
RangesInt(step) == [tag |-> "int", step |-> step]
RangesList(bands) == [tag |-> "list", bands |-> bands]

\* mutant: the default step is 2
BandList_default2(r, radial_ranges) ==
    LET rr == IF radial_ranges = RangesNone THEN RangesInt(2)
              ELSE radial_ranges
    IN  IF rr.tag = "int"
        THEN Zip(SliceTo(r, -rr.step), SliceFrom(r, rr.step))
        ELSE rr.bands

\* the list of bands the loop runs over
BandList(r, radial_ranges) ==
    LET rr == IF radial_ranges = RangesNone THEN RangesInt(1)
              ELSE radial_ranges
    IN  IF rr.tag = "int"
        THEN Zip(SliceTo(r, -rr.step), SliceFrom(r, rr.step))
        ELSE rr.bands

\* mutant: the upper end of a band is exclusive
BandMask_exclusive(r, rr) ==
    [i \in 1..Len(r) |-> QLe(rr[1], r[i]) /\ QLe(r[i], rr[2]) /\ r[i] /= rr[2]]

\* np.logical_and(r >= rr[0], r <= rr[1])
BandMask(r, rr) == [i \in 1..Len(r) |-> QLe(rr[1], r[i]) /\ QLe(r[i], rr[2])]

\* column j of np.sum(polarIM[subr], axis=0), rows i.. onward
RECURSIVE SumColumnFrom(_, _, _, _)
SumColumnFrom(polarIM, subr, j, i) ==
    IF i > Len(polarIM) THEN QInt(0)
    ELSE QAdd(IF subr[i] THEN polarIM[i][j] ELSE QInt(0),
              SumColumnFrom(polarIM, subr, j, i + 1))

\* np.sum(polarIM[subr], axis=0); nt is the angular length of polarIM
SumRows(polarIM, subr, nt) ==
    [j \in 1..nt |-> SumColumnFrom(polarIM, subr, j, 1)]

\* np.mean(rr) of a band
Mean(rr) == QDiv(QAdd(rr[1], rr[2]), QInt(2))

\* mutant: the derived band list is written into the caller's argument
radial_integration_inplace(IM, radial_ranges) ==
    LET g     == reproject_image_into_polar(IM, None, FALSE, QInt(1), None)
        theta == g.T[1]
        r     == [i \in 1..Len(g.R) |-> g.R[i][1]]
        bands == BandList(r, radial_ranges)
    IN  [ intensity_vs_theta |->
              [k \in 1..Len(bands) |->
                  SumRows(g.polarIM, BandMask(r, bands[k]), Len(theta))],
          theta |-> theta,
          radial_midpt |-> [k \in 1..Len(bands) |-> Mean(bands[k])],
          r |-> r,
          bands |-> bands,
          polarIM |-> g.polarIM,
          resampler |-> g.args,
          IM |-> IM,
          radial_ranges |-> RangesList(bands) ]

radial_integration(IM, radial_ranges) ==
    LET g     == reproject_image_into_polar(IM, None, FALSE, QInt(1), None)
        theta == g.T[1]
        r     == [i \in 1..Len(g.R) |-> g.R[i][1]]
        bands == BandList(r, radial_ranges)
    IN  [ intensity_vs_theta |->
              [k \in 1..Len(bands) |->
                  SumRows(g.polarIM, BandMask(r, bands[k]), Len(theta))],
          theta |-> theta,
          radial_midpt |-> [k \in 1..Len(bands) |-> Mean(bands[k])],
          r |-> r,
          bands |-> bands,
          polarIM |-> g.polarIM,
          resampler |-> g.args,
          IM |-> IM,
          radial_ranges |-> radial_ranges ]

(***************************************************************************)
(* anisotropy_parameter                                                    *)
(***************************************************************************)
\* IEEE infinity, as n/0
Inf == [n |-> 1, d |-> 0, p |-> 0]

IsFinite(x) == x.d /= 0

\* the two forms of the theta_ranges argument
ThetaNone == [tag |-> "None"]
ThetaList(ranges) == [tag |-> "list", ranges |-> ranges]

\* subtheta after the loop over ranges i.. onward, entered with subtheta
RECURSIVE ThetaMaskLoop(_, _, _, _)
ThetaMaskLoop(theta, ranges, i, subtheta) ==
    IF i > Len(ranges) THEN subtheta
    ELSE ThetaMaskLoop(theta, ranges, i + 1,
             [k \in 1..Len(theta) |->
                 subtheta[k] /\ (QLe(ranges[i][1], theta[k])
                                 /\ QLe(theta[k], ranges[i][2]))])

\* mutant: the ranges are combined by union
ThetaMask_union(theta, ranges) ==
    [k \in 1..Len(theta) |->
        \E i \in 1..Len(ranges) :
            QLe(ranges[i][1], theta[k]) /\ QLe(theta[k], ranges[i][2])]

\* np.ones(len(theta), dtype=bool) run through the loop
ThetaMask(theta, ranges) ==
    ThetaMaskLoop(theta, ranges, 1, [k \in 1..Len(theta) |-> TRUE])

\* a[mask]: boolean-mask indexing
RECURSIVE MaskSelectFrom(_, _, _)
MaskSelectFrom(a, mask, k) ==
    IF k > Len(a) THEN <<>>
    ELSE (IF mask[k] THEN <<a[k]>> ELSE <<>>) \o MaskSelectFrom(a, mask, k + 1)

MaskSelect(a, mask) == MaskSelectFrom(a, mask, 1)

\* the (theta, intensity) data handed to curve_fit
FitData(theta, intensity, theta_ranges) ==
    IF theta_ranges = ThetaNone
    THEN [theta |-> theta, intensity |-> intensity]
    ELSE LET subtheta == ThetaMask(theta, theta_ranges.ranges)
         IN  [theta |-> MaskSelect(theta, subtheta),
              intensity |-> MaskSelect(intensity, subtheta)]

\* number of free parameters of PAD(theta, beta, amplitude)
NumParams == 2

\* scipy.optimize.curve_fit(PAD, xdata, ydata).  What the least-squares
\* iteration does on the data is the solver's answer `fit`; curve_fit itself
\* rejects fewer data points than parameters (TypeError), raises RuntimeError
\* when the iteration does not converge, and fills pcov with inf when the
\* covariance cannot be estimated (no more points than parameters, or a
\* singular Jacobian).
curve_fit(xdata, ydata, fit) ==
    IF Len(ydata) < NumParams
    THEN [status |-> "raised", error |-> "TypeError"]
    ELSE IF fit.kind = "noconv"
    THEN [status |-> "raised", error |-> "RuntimeError"]
    ELSE IF fit.kind = "singular" \/ ~(Len(ydata) > NumParams)
    THEN [status |-> "returned", popt |-> fit.popt, pcov |-> <<Inf, Inf>>]
    ELSE [status |-> "returned", popt |-> fit.popt, pcov |-> fit.pcov]

\* integer square root of a perfect square
RECURSIVE IntSqrtFrom(_, _)
IntSqrtFrom(x, k) == IF k * k >= x THEN k ELSE IntSqrtFrom(x, k + 1)

\* np.sqrt on a variance
Sqrt(x) == IF ~IsFinite(x) THEN x
           ELSE [n |-> IntSqrtFrom(x.n, 0), d |-> IntSqrtFrom(x.d, 0), p |-> 0]

\* mutant: the fit is run on the unfiltered arrays
anisotropy_parameter_unfiltered(theta, intensity, theta_ranges, fit) ==
    LET data == FitData(theta, intensity, theta_ranges)
        res  == curve_fit(theta, intensity, fit)
        io   == [theta |-> theta, intensity |-> intensity,
                 theta_ranges |-> theta_ranges, fitted |-> data]
    IN  IF res.status = "raised"
        THEN [status |-> "raised", error |-> res.error] @@ io
        ELSE [status |-> "returned",
              beta |-> <<res.popt[1], Sqrt(res.pcov[1])>>,
              amplitude |-> <<res.popt[2], Sqrt(res.pcov[2])>>] @@ io

anisotropy_parameter(theta, intensity, theta_ranges, fit) ==
    LET data == FitData(theta, intensity, theta_ranges)
        res  == curve_fit(data.theta, data.intensity, fit)
        io   == [theta |-> theta, intensity |-> intensity,
                 theta_ranges |-> theta_ranges, fitted |-> data]
    IN  IF res.status = "raised"
        THEN [status |-> "raised", error |-> res.error] @@ io
        ELSE [status |-> "returned",
              beta |-> <<res.popt[1], Sqrt(res.pcov[1])>>,
              amplitude |-> <<res.popt[2], Sqrt(res.pcov[2])>>] @@ io

(***************************************************************************)
(* The callers' inputs.                                                    *)
(***************************************************************************)
SeqsUpTo(S, n) == UNION { [1..k -> S] : k \in 0..n }

Sizes == {2, 4}

\* an n x n image: intensity a on its left half, b on its right half
ImageOf(n, a, b) ==
    [i \in 1..n |-> [j \in 1..n |-> IF j <= n \div 2 THEN a ELSE b]]

Images == { ImageOf(n, a, b) : n \in Sizes, a \in 0..MaxVal, b \in 0..MaxVal }

Origins == { None, <<1, 1>>, <<2, 2>> }

DrChoices == { Q(1, 2, 0), QInt(1) }

DtChoices == { None, <<90>>, <<180>> }

KwargsOf(D, o, d, t) ==
    [k \in D |-> IF k = "origin" THEN o ELSE IF k = "dr" THEN d ELSE t]

KwargsChoices ==
    { KwargsOf(D, o, d, t) : D \in SUBSET {"origin", "dr", "dt"},
                             o \in Origins, d \in DrChoices, t \in DtChoices }

BandEdges == { QInt(0), Q(3, 2, 0), QInt(2) }

RadialRangesChoices ==
    {RangesNone} \cup { RangesInt(s) : s \in (-1)..(MaxLen + 1) }
                 \cup { RangesList(b) :
                          b \in SeqsUpTo(BandEdges \X BandEdges, MaxLen) }

Angles == { Q(-1, 2, 1), QInt(0), Q(1, 2, 1) }

\* intensities base+1, base+2, ...: every point of an array is told apart
Ramp(n, base) == [k \in 1..n |-> QInt(base + k)]

ThetaRanges ==
    { <<Q(-1, 2, 1), QInt(0)>>, <<QInt(0), Q(1, 2, 1)>>,
      <<Q(1, 2, 1), Q(1, 2, 1)>> }

ThetaRangesChoices ==
    {ThetaNone} \cup { ThetaList(rs) : rs \in SeqsUpTo(ThetaRanges, MaxLen) }

\* what the least-squares iteration can answer
SolverAnswers ==
    { [kind |-> "converged", popt |-> <<QInt(2), QInt(1)>>,
       pcov |-> <<QInt(4), QInt(1)>>],
      [kind |-> "converged", popt |-> <<QInt(0), QInt(1)>>,
       pcov |-> <<QInt(0), QInt(0)>>],
      [kind |-> "singular", popt |-> <<QInt(1), QInt(1)>>,
       pcov |-> <<Inf, Inf>>],
      [kind |-> "noconv", popt |-> <<QInt(1), QInt(1)>>,
       pcov |-> <<Inf, Inf>>] }

(***************************************************************************)
(* State: the caller's objects (mem), the output of the first              *)
(* radial_integration call and whether other calls followed it (first),    *)
(* and the last call made (last).                                          *)
(***************************************************************************)
Mem(IM, radial_ranges, theta, intensity, theta_ranges) ==
    [IM |-> IM, radial_ranges |-> radial_ranges, theta |-> theta,
     intensity |-> intensity, theta_ranges |-> theta_ranges]

NoCall == [fn |-> "none"]

NotYet == [set |-> FALSE]

\* what a caller sees of radial_integration
RadialOutput(res) == <<res.intensity_vs_theta, res.theta, res.radial_midpt>>

\* once radial_integration has been called, another function was called since
Since(f) == IF f.set THEN [f EXCEPT !.since = TRUE] ELSE f

InitAngular ==
    /\ mem \in { Mem(im, RangesNone, <<>>, <<>>, ThetaNone) : im \in Images }
    /\ first = NotYet
    /\ last = NoCall

InitRadial ==
    /\ mem \in { Mem(im, rr, <<>>, <<>>, ThetaNone) :
                   im \in Images, rr \in RadialRangesChoices }
    /\ first = NotYet
    /\ last = NoCall

InitFit ==
    /\ mem \in { Mem(ImageOf(2, 0, 0), RangesNone, th, Ramp(Len(th), base), tr) :
                   th \in SeqsUpTo(Angles, MaxPts), base \in 0..MaxVal,
                   tr \in ThetaRangesChoices }
    /\ first = NotYet
    /\ last = NoCall

\* a session of calls on one image, band list and angular profile
SessionKwargs ==
    { KwargsOf({}, None, QInt(1), None),
      KwargsOf({"dr"}, None, Q(1, 2, 0), None) }

Init ==
    /\ mem \in { Mem(im, rr, <<Q(-1, 2, 1), QInt(0), Q(1, 2, 1)>>,
                     Ramp(3, 0), tr) :
                   im \in Images,
                   rr \in { RangesInt(2),
                            RangesList(<< <<QInt(0), QInt(2)>> >>) },
                   tr \in { ThetaNone,
                            ThetaList(<< <<QInt(0), Q(1, 2, 1)>> >>) } }
    /\ first = NotYet
    /\ last = NoCall

AngularIntegrationCall(origins, drs, dts) ==
    \E origin \in origins, Jacobian \in BOOLEAN, dr \in drs, dt \in dts :
        LET res == angular_integration(mem.IM, origin, Jacobian, dr, dt)
        IN  /\ last' = [fn |-> "angular_integration",
                        args |-> [IM |-> mem.IM, origin |-> origin,
                                  Jacobian |-> Jacobian, dr |-> dr, dt |-> dt],
                        res |-> res]
            /\ mem' = [mem EXCEPT !.IM = res.IM]
            /\ first' = Since(first)

AverageRadialIntensityCall(kwargsChoices) ==
    \E kwargs \in kwargsChoices :
        LET res == average_radial_intensity(mem.IM, kwargs)
        IN  /\ last' = [fn |-> "average_radial_intensity",
                        args |-> [IM |-> mem.IM, kwargs |-> kwargs],
                        res |-> res]
            /\ mem' = [mem EXCEPT !.IM = res.IM]
            /\ first' = Since(first)

RadialIntegrationCall ==
    LET res == radial_integration(mem.IM, mem.radial_ranges)
    IN  /\ last' = [fn |-> "radial_integration",
                    args |-> [IM |-> mem.IM,
                              radial_ranges |-> mem.radial_ranges],
                    res |-> res]
        /\ mem' = [mem EXCEPT !.IM = res.IM,
                              !.radial_ranges = res.radial_ranges]
        /\ first' = IF first.set THEN first
                    ELSE [set |-> TRUE, out |-> RadialOutput(res),
                          since |-> FALSE]

AnisotropyParameterCall ==
    \E fit \in SolverAnswers :
        LET res == anisotropy_parameter(mem.theta, mem.intensity,
                                        mem.theta_ranges, fit)
        IN  /\ last' = [fn |-> "anisotropy_parameter",
                        args |-> [theta |-> mem.theta,
                                  intensity |-> mem.intensity,
                                  theta_ranges |-> mem.theta_ranges,
                                  fit |-> fit],
                        res |-> res]
            /\ mem' = [mem EXCEPT !.theta = res.theta,
                                  !.intensity = res.intensity,
                                  !.theta_ranges = res.theta_ranges]
            /\ first' = Since(first)

\* The functions are pure (C8_NoHiddenState, under Spec): the specification of
\* one function applies it once to every input.
NextAngular ==
    /\ last = NoCall
    /\ \/ AngularIntegrationCall(Origins, DrChoices, DtChoices)
       \/ AverageRadialIntensityCall(KwargsChoices)

NextRadial == last = NoCall /\ RadialIntegrationCall

NextFit == last = NoCall /\ AnisotropyParameterCall

Next ==
    \/ AngularIntegrationCall({None}, {QInt(1)}, {None, <<90>>})
    \/ AverageRadialIntensityCall(SessionKwargs)
    \/ RadialIntegrationCall
    \/ AnisotropyParameterCall

SpecAngular == InitAngular /\ [][NextAngular]_vars

SpecRadial == InitRadial /\ [][NextRadial]_vars

SpecFit == InitFit /\ [][NextFit]_vars

Spec == Init /\ [][Next]_vars

(***************************************************************************)
(* Properties.                                                             *)
(***************************************************************************)
\* the sum of f over the finite set S
RECURSIVE QSum(_, _)
QSum(f, S) ==
    IF S = {} THEN QInt(0)
    ELSE LET x == CHOOSE y \in S : TRUE
         IN  QAdd(f[x], QSum(f, S \ {x}))

IsAverageCall == last.fn = "average_radial_intensity"
IsAngularCall == last.fn = "angular_integration"
IsRadialCall == last.fn = "radial_integration"
IsFitCall == last.fn = "anisotropy_parameter"

\* angular_integration with Jacobian=J on the arguments of the last
\* average_radial_intensity call
AngularOnSameArguments(J) ==
    angular_integration(last.args.IM,
                        Kw(last.args.kwargs, "origin", None), J,
                        Kw(last.args.kwargs, "dr", QInt(1)),
                        Kw(last.args.kwargs, "dt", None))

Integrand(g, J, i, j) ==
    IF J THEN QMul(g.polarIM[i][j],
                   QMul(g.R[i][j], QInt(Abs(Sin(g.T[i][j])))))
    ELSE g.polarIM[i][j]

\* the trapezoidal rule over the angular axis of row i, written out
TrapezoidSum(g, J, i) ==
    LET nt == Len(g.T[1])
    IN  QSum([j \in 1..(nt - 1) |->
                 QMul(Q(2, nt, 1),
                      QDiv(QAdd(Integrand(g, J, i, j), Integrand(g, J, i, j + 1)),
                           QInt(2)))],
             1..(nt - 1))

\* C10: angular_integration forwards its Jacobian flag (and the other
\* arguments) unchanged to the resampler; the integrated values are the
\* trapezoidal sums of polarIM*R*|sin(T)| when the flag is true and of the
\* resampled image itself when it is false; radii and profile have one
\* entry per radial bin.
C10_FlagForwardedAndWeighting ==
    IsAngularCall =>
        LET J == last.args.Jacobian
            g == reproject_image_into_polar(last.args.IM, last.args.origin, J,
                                            last.args.dr, last.args.dt)
        IN  /\ last.res.resampler = g.args
            /\ last.res.resampler.Jacobian = J
            /\ Len(last.res.r) = Len(g.polarIM)
            /\ Len(last.res.speeds) = Len(last.res.r)
            /\ \A i \in 1..Len(g.polarIM) :
                   /\ last.res.speeds[i] = TrapezoidSum(g, J, i)
                   /\ last.res.r[i] = GridRadius(i, last.args.dr)

\* a call with the flag false on an image whose weighted integral differs
C10_Witness ==
    /\ IsAngularCall
    /\ ~last.args.Jacobian
    /\ LET g == reproject_image_into_polar(last.args.IM, last.args.origin,
                                           FALSE, last.args.dr, last.args.dt)
       IN  \E i \in 1..Len(g.polarIM) :
               TrapezoidSum(g, TRUE, i) /= last.res.speeds[i]

\* the polar grid radial_integration works on: the resampler's defaults
RadialGrid ==
    reproject_image_into_polar(last.args.IM, None, FALSE, QInt(1), None)

\* the radial coordinate of row i of the grid g
RadiusOf(g, i) == g.R[i][1]

\* the rows of g whose radius lies in [rr[1], rr[2]], both ends included
RowsInBand(g, rr) ==
    { i \in 1..Len(g.R) :
        QLe(rr[1], RadiusOf(g, i)) /\ QLe(RadiusOf(g, i), rr[2]) }

\* C2: with radial_ranges omitted or equal to 1 there are len(r) - 1 bands;
\* band i is (r[i], r[i+1]), of unit width, and its reported radius is the
\* midpoint of the two (twice the reported radius is r[i] + r[i+1]).
C2_DefaultUnitBands ==
    (IsRadialCall /\ last.args.radial_ranges \in {RangesNone, RangesInt(1)}) =>
        LET g == RadialGrid
            n == Len(g.R)
        IN  /\ Len(last.res.bands) = n - 1
            /\ Len(last.res.intensity_vs_theta) = n - 1
            /\ Len(last.res.radial_midpt) = n - 1
            /\ \A i \in 1..(n - 1) :
                   /\ last.res.bands[i] = <<RadiusOf(g, i), RadiusOf(g, i + 1)>>
                   /\ QSub(last.res.bands[i][2], last.res.bands[i][1]) = QInt(1)
                   /\ QMul(last.res.radial_midpt[i], QInt(2))
                          = QAdd(RadiusOf(g, i), RadiusOf(g, i + 1))

\* the default request on a grid of four radii: three bands
C2_Witness ==
    /\ IsRadialCall
    /\ last.args.radial_ranges = RangesNone
    /\ Len(last.res.bands) = 3
    /\ last.res.radial_midpt[3] = Q(5, 2, 0)

\* C3 as stated: with an integer step no row of the polar grid is selected
\* by more than one of the derived bands.
C3_StepBandsDisjoint ==
    (IsRadialCall /\ last.args.radial_ranges.tag = "int") =>
        \A i \in 1..Len(last.res.r) :
            Cardinality({ k \in 1..Len(last.res.bands) :
                            i \in RowsInBand(RadialGrid, last.res.bands[k]) }) <= 1

\* C4: one output row per requested band, in request order; the row of band
\* (r_lo, r_hi) is, column by column, the sum of the polar rows with
\* r_lo <= r <= r_hi; a band without rows gives zeros over the full angular
\* length.
C4_BandProfileIsInclusiveSum ==
    IsRadialCall =>
        LET g  == RadialGrid
            nt == Len(g.T[1])
            out == last.res.intensity_vs_theta
        IN  /\ last.args.radial_ranges.tag = "list"
                   => last.res.bands = last.args.radial_ranges.bands
            /\ Len(out) = Len(last.res.bands)
            /\ Len(last.res.radial_midpt) = Len(last.res.bands)
            /\ last.res.theta = g.T[1]
            /\ \A k \in 1..Len(out) :
                   LET rows == RowsInBand(g, last.res.bands[k])
                   IN  /\ Len(out[k]) = nt
                       /\ \A j \in 1..nt :
                              out[k][j] = QSum([i \in rows |-> g.polarIM[i][j]], rows)
                       /\ rows = {} => \A j \in 1..nt : out[k][j] = QInt(0)

\* an explicit request of a band without rows followed by a band whose upper
\* end lies on a grid radius with signal
C4_Witness ==
    /\ IsRadialCall
    /\ last.args.radial_ranges.tag = "list"
    /\ Len(last.res.bands) = 2
    /\ RowsInBand(RadialGrid, last.res.bands[1]) = {}
    /\ last.res.bands[2][2] = QInt(2)
    /\ Len(last.res.r) > 2
    /\ \E j \in 1..Len(last.res.theta) :
           /\ RadialGrid.polarIM[3][j] /= QInt(0)
           /\ last.res.intensity_vs_theta[2][j] /= QInt(0)

\* theta[k] lies in every range of the list rs
InEveryRange(theta, k, rs) ==
    \A i \in 1..Len(rs) : QLe(rs[i][1], theta[k]) /\ QLe(theta[k], rs[i][2])

\* the positions of the caller's arrays that remain after the theta_ranges
\* filter of the last anisotropy_parameter call
Kept ==
    { k \in 1..Len(last.args.theta) :
        \/ last.args.theta_ranges = ThetaNone
        \/ InEveryRange(last.args.theta, k, last.args.theta_ranges.ranges) }

\* the m-th smallest element of the set of positions S
Nth(S, m) == CHOOSE k \in S : Cardinality({ x \in S : x <= k }) = m

\* C5: with fewer than 2 data points left after the theta_ranges filter
\* (none at all, or an unfiltered input of length 0 or 1, included)
\* anisotropy_parameter raises and returns no parameter values.
C5_TooFewPointsRaises ==
    (IsFitCall /\ Cardinality(Kept) < 2) =>
        /\ last.res.status = "raised"
        /\ "beta" \notin DOMAIN last.res
        /\ "amplitude" \notin DOMAIN last.res

\* two or more points given, fewer than two left by the filter, and a solver
\* that would have converged
C5_Witness ==
    /\ IsFitCall
    /\ Len(last.args.theta) >= 2
    /\ last.args.theta_ranges /= ThetaNone
    /\ Cardinality(Kept) = 1
    /\ last.args.fit.kind = "converged"
    /\ last.res.status = "raised"

\* C6 as stated: a fit that does not converge, or whose covariance is not
\* finite, is surfaced as a failure; no returned error entry is infinite.
C6_FitFailureSurfaced ==
    IsFitCall =>
        /\ last.args.fit.kind = "noconv" => last.res.status = "raised"
        /\ last.res.status = "returned" =>
               /\ IsFinite(last.res.beta[2])
               /\ IsFinite(last.res.amplitude[2])

====
